---------------------------- MODULE Spec2Model ----------------------------
(***************************************************************************)
(* One chat turn of the text-layer conversation engine:                    *)
(*   ProcessChatMessageCommand.execute (app/commands/threads/              *)
(*   process_chat_message.py) and LLMSession.trim_message_history          *)
(*   (app/services/llm/session.py).                                        *)
(*                                                                         *)
(* Texts are sequences of characters; Python's None is the value None.     *)
(* A Python dict is a TLA+ record whose DOMAIN is the set of its keys, so  *)
(* an absent key is an absent field.                                       *)
(***************************************************************************)
EXTENDS Integers, Sequences, FiniteSets, TLC

(***************************************************************************)
(* Bounds of the model                                                     *)
(***************************************************************************)
MaxHistory == 3        \* longest inbound history
MaxTokenLimit == 3     \* largest (scaled) context window of a chat model
MaxToolCalls == 2      \* most tool calls in one provider response

(***************************************************************************)
(* Values                                                                  *)
(***************************************************************************)
\* Python None where a str or a list is expected; no text equals it because
\* "None" is not a character.
None == <<"None">>

\* Python None where an object (a dict, a response, an exception) is expected
NoneObj == [type |-> "NoneType"]

\* Python None where a list of objects is expected
NoneList == <<NoneObj>>

\* Python truthiness of a str-or-None value, and of a list-or-None value
Truthy(v) == v # None /\ v # <<>>

TruthyList(v) == v # NoneList /\ v # <<>>

\* dict.get(key, default)
Get(d, key, default) == IF key \in DOMAIN d THEN d[key] ELSE default

\* dict merge as in {**a, **b} (b wins)
Merge(a, b) == [k \in DOMAIN a \cup DOMAIN b |-> IF k \in DOMAIN b THEN b[k] ELSE a[k]]

(***************************************************************************)
(* Tokenizer (tiktoken p50k_base, abstracted to a byte-pair vocabulary     *)
(* over the characters a, b with the single merge "ab"):                   *)
(* a token is the text it stands for; encode merges greedily from the      *)
(* left, decode concatenates.                                              *)
(***************************************************************************)
RECURSIVE Encode(_)
Encode(text) ==
    IF text = <<>> THEN <<>>
    ELSE IF Len(text) >= 2 /\ text[1] = "a" /\ text[2] = "b"
         THEN <<SubSeq(text, 1, 2)>> \o Encode(SubSeq(text, 3, Len(text)))
         ELSE <<SubSeq(text, 1, 1)>> \o Encode(Tail(text))

RECURSIVE Decode(_)
Decode(tokens) ==
    IF tokens = <<>> THEN <<>> ELSE Head(tokens) \o Decode(Tail(tokens))

\* session.py:320-321  tokens of one message
MessageTokens(msg) ==
    LET content == Get(msg, "content", <<>>)
    IN  IF Truthy(content) THEN Encode(content) ELSE <<>>

\* as SumLen, but every token counted twice
RECURSIVE SumLenDoubled(_)
SumLenDoubled(tokenized) ==
    IF tokenized = <<>> THEN 0
    ELSE 2 * Len(Head(tokenized)[2]) + SumLenDoubled(Tail(tokenized))

\* session.py:325  total_tokens = sum(len(tokens) ...)
RECURSIVE SumLen(_)
SumLen(tokenized) ==
    IF tokenized = <<>> THEN 0
    ELSE Len(Head(tokenized)[2]) + SumLen(Tail(tokenized))

\* session.py:318-322
Tokenize(messages) == [i \in 1..Len(messages) |-> <<messages[i], MessageTokens(messages[i])>>]

\* as TrimLoop, but popping the newest message (pop() for pop(0))
RECURSIVE TrimLoopPopNewest(_, _, _)
TrimLoopPopNewest(tokenized, total_tokens, limit) ==
    IF total_tokens > limit /\ tokenized # <<>>
    THEN TrimLoopPopNewest(SubSeq(tokenized, 1, Len(tokenized) - 1),
                           total_tokens - Len(tokenized[Len(tokenized)][2]), limit)
    ELSE tokenized

\* session.py:328-330  pop the oldest while over the limit and non-empty
RECURSIVE TrimLoop(_, _, _)
TrimLoop(tokenized, total_tokens, limit) ==
    IF total_tokens > limit /\ tokenized # <<>>
    THEN TrimLoop(Tail(tokenized), total_tokens - Len(Head(tokenized)[2]), limit)
    ELSE tokenized

\* as TrimmedMessage, but a copy of the whole message with decoded content
TrimmedMessageCopy(message, tokens) == Merge(message, [content |-> Decode(tokens)])

\* session.py:335-346  one re-emitted message
TrimmedMessage(message, tokens) ==
    LET base       == [role |-> message["role"], content |-> Decode(tokens)]
        tool_calls == Get(message, "tool_calls", <<>>)
        tcid       == Get(message, "tool_call_id", None)
        withCalls  == IF TruthyList(tool_calls)
                      THEN Merge(base, [tool_calls |-> tool_calls]) ELSE base
    IN  IF Truthy(tcid) THEN Merge(withCalls, [tool_call_id |-> tcid]) ELSE withCalls

\* session.py:305-350
trim_message_history(messages, limit) ==
    LET tokenized == Tokenize(messages)
        kept      == TrimLoop(tokenized, SumLen(tokenized), limit)
    IN  [i \in 1..Len(kept) |-> TrimmedMessage(kept[i][1], kept[i][2])]

(***************************************************************************)
(* Messages, tool calls, tool results                                      *)
(***************************************************************************)
\* str(uuid4()): the n-th identifier drawn
Uuid(n) == <<"uuid", n>>

\* formatters.py:6-11  get_timestamp(with_nanoseconds=True), a text
get_timestamp == <<"2025-01-01 00:00:00", ".", "000000000">>

\* identifier the provider gives the i-th tool call of a response
CallId(i) == <<"call", i>>

ArgsValid == "{\"query\": \"SHOW TABLES;\"}"

ArgsMalformed == "{\"query\": "

\* as JsonLoads, but undecodable text yields a default argument set
JsonLoadsLenient(text) ==
    IF text = ArgsValid
    THEN [ok |-> TRUE, value |-> <<<<"query", "SHOW TABLES;">>>>]
    ELSE [ok |-> TRUE, value |-> <<>>]

\* json.loads on the argument texts above
JsonLoads(text) ==
    IF text = ArgsValid
    THEN [ok |-> TRUE, value |-> <<<<"query", "SHOW TABLES;">>>>]
    ELSE [ok |-> FALSE, value |-> None]

\* process_chat_message.py:31-32  names registered in the Toolkit
ToolkitNames == {"text_to_sql"}

\* a tool call as the provider returns it (tool_call.id, tool_call.function.*)
ProviderToolCall(i, kind) ==
    [id |-> CallId(i), function |-> [name |-> kind[1], arguments |-> kind[2]]]

CallKinds ==
    { <<"text_to_sql", ArgsValid>>,
      <<"text_to_sql", ArgsMalformed>>,
      <<"no_such_tool", ArgsValid>> }

\* process_chat_message.py:73-80  the entry stored on the assistant message
ToolCallEntry(tool_call) ==
    [id |-> tool_call.id, type |-> "function",
     function |-> [name |-> tool_call.function.name,
                   arguments |-> tool_call.function.arguments]]

\* Python values a tool can return: a dict is an ordered sequence of
\* <<key, value>> pairs; attrs are the method names hasattr finds.
PyDict(pairs) == [type |-> "dict", attrs |-> {}, pairs |-> pairs]

PyStr(text) == [type |-> "str", attrs |-> {}, text |-> text]

\* a value that also has export methods: exports maps each method name to
\* the pairs of the dict that calling it yields
WithExports(v, exports) == Merge(v, [attrs |-> DOMAIN exports, exports |-> exports])

PyModel(pairs) ==
    WithExports([type |-> "model"],
                [dict |-> pairs, model_dump |-> pairs, json |-> pairs])

\* any other object, e.g. an int or a list
PyObject == [type |-> "object", attrs |-> {}]

ResultPairs == <<<<"q", "x">>, <<"result", "42">>>>

ToolReturnValues == {PyStr("| n |"), PyDict(ResultPairs), PyModel(ResultPairs)}

\* the export methods the dispatcher probes with hasattr
ExportMethods == {"dict", "model_dump", "json"}

\* what each export method of a value yields: told apart by method
ExportsVia(methods) == [m \in methods |-> <<<<"via", m>>>>]

\* return values of every shape the dispatcher tells apart: mappings, texts
\* and other objects, each with every combination of export methods
PlainReturns ==
    {PyDict(ResultPairs), PyDict(<<>>), PyDict(<<<<"value", "x">>>>),
     PyStr("| n |"), PyStr(""), PyObject}

AllToolReturns ==
    PlainReturns \cup
    {WithExports(v, ExportsVia(methods)) :
         v \in PlainReturns, methods \in (SUBSET ExportMethods) \ {{}}}

(***************************************************************************)
(* Inbound histories                                                       *)
(***************************************************************************)
InputMessages ==
    { [role |-> "user", content |-> <<"a">>],
      [role |-> "user", content |-> <<"b", "a">>],
      [role |-> "assistant", content |-> <<>>],
      [role |-> "moderator", content |-> <<"a">>],
      [id |-> Uuid(0), role |-> "assistant", content |-> None,
       timestamp |-> <<get_timestamp>>, finish_reason |-> "tool_calls",
       tool_calls |-> <<ToolCallEntry(ProviderToolCall(0, <<"text_to_sql", ArgsValid>>))>>],
      [id |-> Uuid(1), role |-> "tool", content |-> <<"a", "b">>,
       timestamp |-> <<get_timestamp>>, tool_call_id |-> CallId(0)] }

RECURSIVE SeqsUpTo(_, _)
SeqsUpTo(S, n) ==
    IF n = 0 THEN {<<>>}
    ELSE LET shorter == SeqsUpTo(S, n - 1)
         IN  shorter \cup {Append(s, x) : s \in {t \in shorter : Len(t) = n - 1}, x \in S}

Histories == SeqsUpTo(InputMessages, MaxHistory)

\* a content that is not a text and not falsy: a non-empty list of parts
NonText == <<"[parts]">>

\* session.py:321  tokenizer.encode raises TypeError on a content that is
\* truthy and not a str
EncodeRaises(msg) == Get(msg, "content", <<>>) = NonText

\* messages of every shape trim_message_history tells apart
TrimMessages ==
    { [role |-> "user", content |-> <<"a">>],
      [role |-> "user", content |-> <<"b", "a">>],
      [role |-> "user", content |-> NonText],
      [role |-> "assistant", tool_calls |-> <<>>, tool_call_id |-> None],
      [id |-> Uuid(0), role |-> "assistant", content |-> <<"b">>,
       timestamp |-> <<get_timestamp>>, finish_reason |-> "stop", tool_calls |-> <<>>],
      [id |-> Uuid(0), role |-> "assistant", content |-> None,
       timestamp |-> <<get_timestamp>>, finish_reason |-> "tool_calls",
       tool_calls |-> <<ToolCallEntry(ProviderToolCall(0, <<"text_to_sql", ArgsValid>>))>>],
      [id |-> Uuid(0), role |-> "assistant", content |-> <<"a">>,
       timestamp |-> <<get_timestamp>>, finish_reason |-> "tool_calls",
       tool_calls |-> <<ToolCallEntry(ProviderToolCall(0, <<"text_to_sql", ArgsValid>>))>>],
      [id |-> Uuid(1), role |-> "tool", content |-> <<"a", "b">>,
       timestamp |-> <<get_timestamp>>, tool_call_id |-> CallId(0)] }

TrimHistories == SeqsUpTo(TrimMessages, MaxHistory)

TokenLimits == 1..MaxTokenLimit

(***************************************************************************)
(* Collaborators: context enrichment, system prompt, provider, tools       *)
(***************************************************************************)
\* faiss_schema_retriever.py:35-39  top_k = 3 schema descriptions
SchemaSnippets == <<"Table account", "Table customer", "Table product">>

\* chat_prompt.py:5-38  one system message, schema block spliced in
chat_prompt(schema_context) ==
    LET schema_block == IF schema_context # <<>>
                        THEN <<"\nRelevant schema context for this question:\n">>
                             \o schema_context \o <<"\n">>
                        ELSE <<>>
    IN  <<[role |-> "system",
           content |-> <<"You are a DuckDB SQL expert.">> \o schema_block
                       \o <<"For EVERY user query about the database">>]>>

\* as LatestUserMessage, but the first message with role user
RECURSIVE EarliestUserMessage(_)
EarliestUserMessage(messages) ==
    IF messages = <<>> THEN NoneObj
    ELSE IF messages[1]["role"] = "user" THEN messages[1]
         ELSE EarliestUserMessage(Tail(messages))

\* process_chat_message.py:124-126  last message with role user, NoneObj if none
RECURSIVE LatestUserMessage(_)
LatestUserMessage(messages) ==
    IF messages = <<>> THEN NoneObj
    ELSE IF messages[Len(messages)]["role"] = "user" THEN messages[Len(messages)]
         ELSE LatestUserMessage(SubSeq(messages, 1, Len(messages) - 1))

Exception(type, message) == [type |-> type, message |-> message]

\* failures of litellm.completion, by exception class
ProviderFailures ==
    { Exception("BadRequestError", "malformed request"),
      Exception("APIConnectionError", "connection reset") }

\* as IsBadRequestError, but with no except BadRequestError clause
IsBadRequestErrorNever(e) == FALSE

\* process_chat_message.py:55  except BadRequestError
IsBadRequestError(e) == e.type = "BadRequestError"

\* tool-call lists a response can carry: absent, empty, or 1..MaxToolCalls calls
RECURSIVE KindSeqs(_)
KindSeqs(n) ==
    IF n = 0 THEN {<<>>}
    ELSE {Append(s, k) : s \in KindSeqs(n - 1), k \in CallKinds}

ProviderToolCallLists ==
    {NoneList} \cup
    UNION { { [i \in 1..n |-> ProviderToolCall(i, ks[i])] : ks \in KindSeqs(n) }
            : n \in 0..MaxToolCalls }

\* response.choices[0]: finish_reason, message.content, message.tool_calls
ProviderResponses ==
    { [finish_reason |-> f, content |-> <<"b">>, tool_calls |-> NoneList]
        : f \in {"stop", "length"} }
    \cup
    { [finish_reason |-> "tool_calls", content |-> c, tool_calls |-> tcs]
        : c \in {None, <<"b">>}, tcs \in ProviderToolCallLists }

(***************************************************************************)
(* Model capability registry and session construction (session.py:18-185)  *)
(***************************************************************************)
\* session.py:18-69
AVAILABLE_CHAT_MODELS ==
    << [name |-> "gpt-4o-mini", token_limit |-> 128000],
       [name |-> "gpt-4o", token_limit |-> 128000],
       [name |-> "o3-mini", token_limit |-> 200000],
       [name |-> "o1", token_limit |-> 200000],
       [name |-> "o1-mini", token_limit |-> 200000],
       [name |-> "gpt-4.5-preview", token_limit |-> 128000],
       [name |-> "us.anthropic.claude-3-7-sonnet-20250219-v1:0", token_limit |-> 200000],
       [name |-> "us.anthropic.claude-3-5-sonnet-20241022-v2:0", token_limit |-> 200000],
       [name |-> "anthropic.claude-3-sonnet-20240229-v1:0", token_limit |-> 28000],
       [name |-> "anthropic.claude-3-haiku-20240307-v1:0", token_limit |-> 48000] >>

\* session.py:71-92
AVAILABLE_EMBEDDING_MODELS ==
    << [name |-> "text-embedding-3-small", dimensions |-> 1536],
       [name |-> "text-embedding-3-large", dimensions |-> 3072],
       [name |-> "cohere.embed-english-v3", dimensions |-> 1024],
       [name |-> "amazon.titan-embed-text-v2:0", dimensions |-> 1024] >>

\* [m['name'] for m in models]
ModelNamesOf(models) == [i \in 1..Len(models) |-> models[i].name]

\* Python None where a model name is expected (config.get of an unset key)
NoneName == "<None>"

\* values current_app.config can hold for CHAT_MODEL and EMBEDDING_MODEL
ConfigModelNames ==
    {AVAILABLE_CHAT_MODELS[i].name : i \in 1..Len(AVAILABLE_CHAT_MODELS)}
    \cup {AVAILABLE_EMBEDDING_MODELS[i].name : i \in 1..Len(AVAILABLE_EMBEDDING_MODELS)}
    \cup {"gpt-3.5-turbo", NoneName}

\* values of KNN_EMBEDDING_DIMENSION; 0 stands for an unset (or zero) value
ConfigDimensions == {0, 1024, 1536, 3072}

\* as FindModel, but falling back to the first model of the catalog
FindModelOrFirst(models, model_name, model_type) ==
    [ok |-> TRUE,
     model |-> IF \E i \in 1..Len(models) : models[i].name = model_name
               THEN models[CHOOSE i \in 1..Len(models) : models[i].name = model_name]
               ELSE models[1]]

\* session.py:125-143  _find_model: the first model of that name, or ValueError
FindModel(models, model_name, model_type) ==
    LET Scan[i \in 1..(Len(models) + 1)] ==
            IF i > Len(models)
            THEN [ok |-> FALSE,
                  error |-> [type |-> "ValueError",
                             message |-> <<"Invalid ", model_type, " model: ", model_name,
                                           ". Must be one of ", ModelNamesOf(models)>>]]
            ELSE IF models[i].name = model_name
                 THEN [ok |-> TRUE, model |-> models[i]]
                 ELSE Scan[i + 1]
    IN  Scan[1]

\* as DimensionMismatch, but accepting any dimensionality
DimensionMismatchIgnored(dimensions, expected_dim) == FALSE

\* session.py:119  self.knn_embedding_dimensions != expected_dim
DimensionMismatch(dimensions, expected_dim) == dimensions # expected_dim

VARIABLES
    app_config,       \* current_app.config: CHAT_MODEL, EMBEDDING_MODEL, KNN_EMBEDDING_DIMENSION
    session,          \* attributes of the LLMSession set so far
    init_pc,          \* position in LLMSession.__init__ / ProcessChatMessageCommand.__init__
    init_raised,      \* exception that left the constructor, NoneObj if none
    limit_lookup      \* result of _get_chat_model_token_limit, 0 before the lookup

session_vars == <<app_config, session, init_pc, init_raised, limit_lookup>>

(***************************************************************************)
(* Normalization of tool results, on its own                               *)
(***************************************************************************)
VARIABLES
    norm_pc,          \* position in the normalization chain
    norm_return,      \* value returned by Toolkit.run_tool
    norm_result,      \* value returned by execute_tool_call
    norm_content      \* content of the tool message before json.dumps

dispatch_vars == <<norm_pc, norm_return, norm_result, norm_content>>

VARIABLES
    pc,               \* position in execute
    chat_messages,    \* the list object held by the caller and by self.chat_messages
    input_history,    \* contents of that list when the command was constructed
    token_limit,      \* context window of the session's chat model
    trimmed,          \* result of trim_message_history, NoneList before it ran
    outbound,         \* chat_kwargs["messages"], NoneList before it is built
    response,         \* the provider's response, NoneObj before it arrived
    response_message, \* the assistant message built from the response
    tool_messages,    \* tool messages built so far
    idx,              \* position of the dispatch loop in tool_calls
    events,           \* log of provider and toolkit calls, in order
    next_uuid,        \* number of uuid4 draws so far
    returned,         \* value returned by execute, NoneList if none
    raised            \* exception that left execute, NoneObj if none

turn_vars == <<pc, chat_messages, input_history, token_limit, trimmed, outbound,
               response, response_message, tool_messages, idx, events, next_uuid,
               returned, raised>>

(***************************************************************************)
(* The text-to-SQL endpoint (app/routes/text_to_sql_routes.py): texts are  *)
(* strings here                                                            *)
(***************************************************************************)
\* Python None where a str is expected, and truthiness of a str-or-None
NoneStr == "<None>"

TruthyStr(v) == v \notin {NoneStr, ""}

\* a or b
Or(a, b) == IF TruthyStr(a) THEN a ELSE b

\* str.strip() on the texts of the model
Strip(text) == IF text = " " THEN "" ELSE text

\* SQL texts the language model can produce; the last one is not valid SQL
SqlTexts == {"SELECT 1", "SELECT 2", "SELEC"}

\* outputs of call_llm: the texts between code fences in order, the text after
\* the last fence, and the lines of the whole output
LlmOutput(code, tail, lines) == [code |-> code, tail |-> tail, lines |-> lines]

SqlOutputs ==
    {LlmOutput(<<q>>, "draft summary", <<"<fence>sql", q, "<fence>", "draft summary">>) : q \in SqlTexts}
    \cup {LlmOutput(<<>>, "", <<q, "draft summary">>) : q \in SqlTexts}

JudgeOutputs ==
    {LlmOutput(<<q>>, "judge summary", <<"<fence>sql", q, "<fence>", "judge summary">>) : q \in SqlTexts}
    \cup {LlmOutput(<<" ">>, "", <<"<fence>", " ", "<fence>">>),
          LlmOutput(<<>>, "", <<"judge summary">>)}

\* text_to_sql_routes.py:79-89  parse_sql_response
parse_sql_response(llm_output) ==
    IF llm_output.code # <<>>
    THEN [sql_query |-> Strip(llm_output.code[1]), summary |-> Strip(llm_output.tail)]
    ELSE [sql_query |-> Strip(llm_output.lines[1]),
          summary |-> IF Len(llm_output.lines) > 1 THEN llm_output.lines[2] ELSE ""]

\* text_to_sql_routes.py:114-126  parse_judge_response
parse_judge_response(judge_output) ==
    IF judge_output.code # <<>>
    THEN [improved_sql |-> Strip(judge_output.code[1]),
          improved_summary |-> Strip(judge_output.tail)]
    ELSE [improved_sql |-> NoneStr, improved_summary |-> Strip(judge_output.lines[1])]

\* text_to_sql_routes.py:101-103  df_to_markdown of the rows a query yields
ResultMarkdown(query) == <<"| rows of |", query>>

\* text_to_sql_routes.py:176  "sql_query": improved_sql or sql_query
ReportedSql(improved, first) == Or(improved, first)

VARIABLES route_pc, question, db, sql_query, draft_summary, result_markdown,
          improved_sql, improved_summary, http_response

sql_vars == <<route_pc, question, db, sql_query, draft_summary, result_markdown,
              improved_sql, improved_summary, http_response>>

\* no request is being served
RouteIdle ==
    /\ route_pc = "idle"
    /\ question = NoneStr
    /\ db = [q \in SqlTexts |-> TRUE]
    /\ sql_query = NoneStr
    /\ draft_summary = NoneStr
    /\ result_markdown = <<>>
    /\ improved_sql = NoneStr
    /\ improved_summary = NoneStr
    /\ http_response = NoneObj

vars == <<turn_vars, session_vars, dispatch_vars, sql_vars>>

\* a configuration under which the session and the command construct
DeployedConfig ==
    [CHAT_MODEL |-> "gpt-4o", EMBEDDING_MODEL |-> "text-embedding-3-small",
     KNN_EMBEDDING_DIMENSION |-> 1536]

\* the session that configuration yields (session.py:108-112)
DeployedSession ==
    [chat_model |-> "gpt-4o", embedding_model |-> "text-embedding-3-small",
     knn_embedding_dimensions |-> 1536]

\* the constructors have run and succeeded
Constructed ==
    /\ app_config = DeployedConfig
    /\ session = DeployedSession
    /\ init_pc = "command_ready"
    /\ init_raised = NoneObj
    /\ limit_lookup = 0

\* no normalization chain is running on its own
NormIdle ==
    /\ norm_pc = "idle"
    /\ norm_return = NoneObj
    /\ norm_result = NoneObj
    /\ norm_content = NoneObj

Init ==
    /\ RouteIdle
    /\ Constructed
    /\ NormIdle
    /\ pc = "start"
    /\ chat_messages \in Histories
    /\ input_history = chat_messages
    /\ token_limit \in TokenLimits
    /\ trimmed = NoneList
    /\ outbound = NoneList
    /\ response = NoneObj
    /\ response_message = NoneObj
    /\ tool_messages = <<>>
    /\ idx = 0
    /\ events = <<>>
    /\ next_uuid = 2
    /\ returned = NoneList
    /\ raised = NoneObj

\* an exception leaves execute
Raise(e) ==
    /\ raised' = e
    /\ pc' = "raised"

\* as ValidateFails, but accepting every history
ValidateFailsNever(messages) == FALSE

\* process_chat_message.py:35  not self.chat_messages
ValidateFails(messages) == messages = <<>>

\* process_chat_message.py:34-37, 43
Validate ==
    /\ pc = "start"
    /\ IF ValidateFails(chat_messages)
       THEN Raise(Exception("ValidationException", "Chat messages are required."))
       ELSE /\ pc' = "preparing"
            /\ UNCHANGED raised
    /\ UNCHANGED <<chat_messages, input_history, token_limit, trimmed, outbound,
                   response, response_message, tool_messages, idx, events,
                   next_uuid, returned>>
    /\ UNCHANGED <<session_vars, dispatch_vars, sql_vars>>

\* process_chat_message.py:47  toolkit.tool_schemas(): one schema per tool
tool_schemas == <<[type |-> "function", function |-> [name |-> "text_to_sql"]]>>

\* session.py:213-219  the request LLMSession.chat hands to completion
ChatConfig(messages, tools) ==
    IF tools # <<>>
    THEN [model |-> session.chat_model, messages |-> messages, tools |-> tools]
    ELSE [model |-> session.chat_model, messages |-> messages]

\* as OutboundContext, but without the system prompt
OutboundContextWithoutPrompt(system_prompt, trimmed_history) == trimmed_history

\* process_chat_message.py:133  system_prompt + trimmed
OutboundContext(system_prompt, trimmed_history) == system_prompt \o trimmed_history

\* as AfterCompletion, but the provider is called once more
AfterCompletionRetry == "awaiting"

\* process_chat_message.py:51-61  execute goes on to interpret the response
AfterCompletion == "responded"

\* process_chat_message.py:45-48, 121-133  the lookup returns its snippets
PrepareChatMessages ==
    /\ pc = "preparing"
    /\ LET t       == trim_message_history(chat_messages, token_limit)
           latest  == LatestUserMessage(chat_messages)
           context == IF latest # NoneObj THEN SchemaSnippets ELSE <<>>
       IN  /\ trimmed' = t
           /\ outbound' = OutboundContext(chat_prompt(context), t)
           /\ events' = IF latest # NoneObj
                        THEN Append(events, [op |-> "lookup", arg |-> latest["content"]])
                        ELSE events
    /\ pc' = "awaiting"
    /\ UNCHANGED <<chat_messages, input_history, token_limit, response,
                   response_message, tool_messages, idx, next_uuid, returned, raised>>
    /\ UNCHANGED <<session_vars, dispatch_vars, sql_vars>>

\* process_chat_message.py:128  retrieve_schema_context raises; nothing catches it
PrepareLookupRaises ==
    /\ pc = "preparing"
    /\ LatestUserMessage(chat_messages) # NoneObj
    /\ events' = Append(events, [op |-> "lookup",
                                 arg |-> LatestUserMessage(chat_messages)["content"]])
    /\ trimmed' = trim_message_history(chat_messages, token_limit)
    /\ Raise(Exception("RuntimeError", "schema lookup failed"))
    /\ UNCHANGED <<chat_messages, input_history, token_limit, outbound, response,
                   response_message, tool_messages, idx, next_uuid, returned>>
    /\ UNCHANGED <<session_vars, dispatch_vars, sql_vars>>

\* process_chat_message.py:50-59 with session.py:230-236  the provider call
\* fails: BadRequestError is re-raised as it is, anything else is replaced
ProviderCallFails ==
    /\ pc = "awaiting"
    /\ \E e \in ProviderFailures :
         /\ events' = Append(events, [op |-> "completion_failed", error |-> e,
                                      request |-> ChatConfig(outbound, tool_schemas)])
         /\ IF IsBadRequestError(e)
            THEN Raise(e)
            ELSE Raise(Exception("ValidationException", "Error in fetching chat response."))
    /\ UNCHANGED <<chat_messages, input_history, token_limit, trimmed, outbound,
                   response, response_message, tool_messages, idx, next_uuid, returned>>
    /\ UNCHANGED <<session_vars, dispatch_vars, sql_vars>>

\* process_chat_message.py:51  the provider call returns a response
ProviderCallReturns ==
    /\ pc = "awaiting"
    /\ \E r \in ProviderResponses :
         /\ response' = r
         /\ events' = Append(events, [op |-> "completion", finish_reason |-> r.finish_reason,
                                      request |-> ChatConfig(outbound, tool_schemas)])
    /\ pc' = AfterCompletion
    /\ UNCHANGED <<chat_messages, input_history, token_limit, trimmed, outbound,
                   response_message, tool_messages, idx, next_uuid, returned, raised>>
    /\ UNCHANGED <<session_vars, dispatch_vars, sql_vars>>

\* process_chat_message.py:136-143  format_message; kwargs come last in the dict
format_message(n, role, content, kwargs) ==
    Merge([id |-> Uuid(n), role |-> role, content |-> content,
           timestamp |-> <<get_timestamp>>], kwargs)

\* as ResponseMessageConfig, but always with a tool_calls entry
ResponseMessageConfigWithCalls(r) == [finish_reason |-> r.finish_reason, tool_calls |-> <<>>]

\* process_chat_message.py:63-67
ResponseMessageConfig(r) == [finish_reason |-> r.finish_reason]

\* process_chat_message.py:61-84, 111-112  build the assistant message
InterpretResponse ==
    /\ pc = "responded"
    /\ IF response.finish_reason = "tool_calls"
       THEN IF response.tool_calls = NoneList
            THEN \* line 81: iterating None
                 /\ Raise(Exception("TypeError", "'NoneType' object is not iterable"))
                 /\ UNCHANGED <<response_message, next_uuid, idx>>
            ELSE /\ response_message' =
                      format_message(next_uuid, "assistant", response.content,
                          Merge(ResponseMessageConfig(response),
                                [tool_calls |->
                                   [i \in 1..Len(response.tool_calls) |->
                                      ToolCallEntry(response.tool_calls[i])]]))
                 /\ next_uuid' = next_uuid + 1
                 /\ idx' = 1
                 /\ pc' = IF Len(response.tool_calls) = 0 THEN "assembling" ELSE "dispatching"
                 /\ UNCHANGED raised
       ELSE /\ response_message' =
                 format_message(next_uuid, "assistant", response.content,
                                ResponseMessageConfig(response))
            /\ next_uuid' = next_uuid + 1
            /\ pc' = "assembling"
            /\ UNCHANGED <<raised, idx>>
    /\ UNCHANGED <<chat_messages, input_history, token_limit, trimmed, outbound,
                   response, tool_messages, events, returned>>
    /\ UNCHANGED <<session_vars, dispatch_vars, sql_vars>>

(***************************************************************************)
(* Dispatch of the requested tool calls                                    *)
(***************************************************************************)
\* str(value)
Str(v) == IF v.type = "str" THEN v.text ELSE "<object>"

\* result.dict() / result.model_dump() / json.loads(result.json())
Export(v, method) == PyDict(v.exports[method])

\* as NormalizeResult, but testing isinstance(result, dict) first
NormalizeResultMappingFirst(result) ==
    IF result.type = "dict" THEN PyDict(result.pairs)
    ELSE IF "dict" \in result.attrs THEN Export(result, "dict")
    ELSE IF "model_dump" \in result.attrs THEN Export(result, "model_dump")
    ELSE IF "json" \in result.attrs THEN Export(result, "json")
    ELSE PyDict(<<<<"value", Str(result)>>>>)

\* process_chat_message.py:151-161  normalization in execute_tool_call
NormalizeResult(result) ==
    IF "dict" \in result.attrs THEN Export(result, "dict")
    ELSE IF "model_dump" \in result.attrs THEN Export(result, "model_dump")
    ELSE IF "json" \in result.attrs THEN Export(result, "json")
    ELSE IF result.type = "dict" THEN result
    ELSE PyDict(<<<<"value", Str(result)>>>>)

\* as ToolContent, but every result is turned into its text
ToolContentAsText(tool_result) == PyStr(Str(tool_result))

\* process_chat_message.py:90-100  normalization in execute
ToolContent(tool_result) ==
    IF "dict" \in tool_result.attrs THEN Export(tool_result, "dict")
    ELSE IF "model_dump" \in tool_result.attrs THEN Export(tool_result, "model_dump")
    ELSE IF "json" \in tool_result.attrs THEN Export(tool_result, "json")
    ELSE IF tool_result.type = "dict" THEN tool_result
    ELSE PyStr(Str(tool_result))

\* json.dumps: a text, as the sequence of its lexemes
RECURSIVE DumpPairs(_)
DumpPairs(pairs) ==
    IF pairs = <<>> THEN <<>>
    ELSE <<"\"", pairs[1][1], "\"", ": ", "\"", pairs[1][2], "\"">>
         \o (IF Len(pairs) > 1 THEN <<", ">> ELSE <<>>)
         \o DumpPairs(Tail(pairs))

\* as JsonDumps, but a mapping is nested under one more key
JsonDumpsWrapped(v) ==
    IF v.type = "dict" THEN <<"{", "\"", "value", "\"", ": ", "{">> \o DumpPairs(v.pairs) \o <<"}", "}">>
    ELSE <<"\"", v.text, "\"">>

\* process_chat_message.py:105  json.dumps(content)
JsonDumps(v) ==
    IF v.type = "dict" THEN <<"{">> \o DumpPairs(v.pairs) \o <<"}">>
    ELSE <<"\"", v.text, "\"">>

\* as CurrentCall, but iterating the list from its end
CurrentCallReversed == response.tool_calls[Len(response.tool_calls) + 1 - idx]

\* process_chat_message.py:86  the call the loop is at
CurrentCall == response.tool_calls[idx]

\* as ToolMessageCallId, but always the id of the first call
ToolMessageCallIdFirst(tool_call) == response.tool_calls[1].id

\* process_chat_message.py:104  tool_call_id of the tool message
ToolMessageCallId(tool_call) == tool_call.id

\* process_chat_message.py:86  next iteration, or the end of the loop
LoopAdvance(i) == i + 1

\* process_chat_message.py:149  json.loads of the argument text fails
ToolCallDecodeFails ==
    /\ pc = "dispatching"
    /\ ~JsonLoads(CurrentCall.function.arguments).ok
    /\ Raise(Exception("JSONDecodeError", "Expecting value"))
    /\ UNCHANGED <<chat_messages, input_history, token_limit, trimmed, outbound,
                   response, response_message, tool_messages, idx, events,
                   next_uuid, returned>>
    /\ UNCHANGED <<session_vars, dispatch_vars, sql_vars>>

\* process_chat_message.py:147-150  the arguments decode, run_tool is entered
ToolCallStart ==
    /\ pc = "dispatching"
    /\ JsonLoads(CurrentCall.function.arguments).ok
    /\ events' = Append(events, [op |-> "run_tool", call |-> CurrentCall.id])
    /\ pc' = "in_tool"
    /\ UNCHANGED <<chat_messages, input_history, token_limit, trimmed, outbound,
                   response, response_message, tool_messages, idx, next_uuid,
                   returned, raised>>
    /\ UNCHANGED <<session_vars, dispatch_vars, sql_vars>>

\* process_chat_message.py:147-150  run_tool raises (no such tool, or the tool
\* itself raised); neither execute_tool_call nor execute catches it
ToolCallRaises ==
    /\ pc = "in_tool"
    /\ events' = Append(events, [op |-> "tool_raised", call |-> CurrentCall.id])
    /\ IF CurrentCall.function.name \in ToolkitNames
       THEN Raise(Exception("ToolError", "tool raised"))
       ELSE Raise(Exception("ValueError", "tool not found in toolkit"))
    /\ UNCHANGED <<chat_messages, input_history, token_limit, trimmed, outbound,
                   response, response_message, tool_messages, idx, next_uuid,
                   returned>>
    /\ UNCHANGED <<session_vars, dispatch_vars, sql_vars>>

\* as HistoryAfterToolMessage, but the tool message goes into the history
HistoryAfterToolMessageAppended(messages, tool_message) == Append(messages, tool_message)

\* process_chat_message.py:109  tool_messages.append: the history is not touched
HistoryAfterToolMessage(messages, tool_message) == messages

\* process_chat_message.py:88-110, 151-161  run_tool returns; the result is
\* normalized and wrapped into a tool message
ToolCallReturns ==
    /\ pc = "in_tool"
    /\ CurrentCall.function.name \in ToolkitNames
    /\ \E result \in ToolReturnValues :
         LET tool_result == NormalizeResult(result)
             content     == ToolContent(tool_result)
             tool_message == format_message(next_uuid, "tool", JsonDumps(content),
                                            [tool_call_id |-> ToolMessageCallId(CurrentCall)])
         IN  /\ tool_messages' = Append(tool_messages, tool_message)
             /\ chat_messages' = HistoryAfterToolMessage(chat_messages, tool_message)
         /\ events' = Append(events, [op |-> "tool_returned", call |-> CurrentCall.id,
                                      result |-> result])
    /\ next_uuid' = next_uuid + 1
    /\ idx' = LoopAdvance(idx)
    /\ pc' = IF LoopAdvance(idx) > Len(response.tool_calls) THEN "assembling" ELSE "dispatching"
    /\ UNCHANGED <<input_history, token_limit, trimmed, outbound,
                   response, response_message, returned, raised>>
    /\ UNCHANGED <<session_vars, dispatch_vars, sql_vars>>

\* as HistoryToExtend, but the trimmed view sent to the provider
HistoryToExtendTrimmed == trimmed

\* process_chat_message.py:115  the list the new messages are appended to
HistoryToExtend == chat_messages

\* process_chat_message.py:114-116  list.append, then list.extend
Extended(messages, assistant, tools) == Append(messages, assistant) \o tools

\* process_chat_message.py:114-118  append in place and return the list
Assemble ==
    /\ pc = "assembling"
    /\ chat_messages' = Extended(HistoryToExtend, response_message, tool_messages)
    /\ returned' = chat_messages'
    /\ pc' = "done"
    /\ UNCHANGED <<input_history, token_limit, trimmed, outbound, response,
                   response_message, tool_messages, idx, events, next_uuid, raised>>
    /\ UNCHANGED <<session_vars, dispatch_vars, sql_vars>>

Next ==
    \/ Validate
    \/ PrepareChatMessages
    \/ PrepareLookupRaises
    \/ ProviderCallFails
    \/ ProviderCallReturns
    \/ InterpretResponse
    \/ ToolCallDecodeFails
    \/ ToolCallStart
    \/ ToolCallRaises
    \/ ToolCallReturns
    \/ Assemble

Spec == Init /\ [][Next]_vars

(***************************************************************************)
(* Construction of the session and the command, for every configuration    *)
(***************************************************************************)
\* no turn is running
TurnIdle ==
    /\ pc = "unbuilt"
    /\ chat_messages = <<>>
    /\ input_history = <<>>
    /\ token_limit = 0
    /\ trimmed = NoneList
    /\ outbound = NoneList
    /\ response = NoneObj
    /\ response_message = NoneObj
    /\ tool_messages = <<>>
    /\ idx = 0
    /\ events = <<>>
    /\ next_uuid = 2
    /\ returned = NoneList
    /\ raised = NoneObj

InitRegistry ==
    /\ RouteIdle
    /\ TurnIdle
    /\ NormIdle
    /\ app_config \in [CHAT_MODEL : ConfigModelNames,
                       EMBEDDING_MODEL : ConfigModelNames,
                       KNN_EMBEDDING_DIMENSION : ConfigDimensions]
    /\ session = NoneObj
    /\ init_pc = "new"
    /\ init_raised = NoneObj
    /\ limit_lookup = 0

\* an exception leaves the constructor
InitRaise(e) ==
    /\ init_raised' = e
    /\ init_pc' = "raised"

\* session.py:108, 145-152  self.chat_model = self.validate_chat_model(chat_model)
SessionValidateChatModel ==
    /\ init_pc = "new"
    /\ LET found == FindModel(AVAILABLE_CHAT_MODELS, app_config.CHAT_MODEL, "chat")
       IN  IF found.ok
           THEN /\ session' = [chat_model |-> found.model.name]
                /\ init_pc' = "chat_validated"
                /\ UNCHANGED init_raised
           ELSE /\ InitRaise(found.error)
                /\ UNCHANGED session
    /\ UNCHANGED <<app_config, limit_lookup, turn_vars, dispatch_vars, sql_vars>>

\* session.py:109-112, 154-163, 176-185  embedding model and its dimensions
SessionValidateEmbeddingModel ==
    /\ init_pc = "chat_validated"
    /\ LET found == FindModel(AVAILABLE_EMBEDDING_MODELS, app_config.EMBEDDING_MODEL,
                              "embedding")
       IN  IF found.ok
           THEN /\ session' =
                     Merge(session,
                           [embedding_model |-> found.model.name,
                            knn_embedding_dimensions |->
                                FindModel(AVAILABLE_EMBEDDING_MODELS, found.model.name,
                                          "embedding").model.dimensions])
                /\ init_pc' = "embedding_validated"
                /\ UNCHANGED init_raised
           ELSE /\ InitRaise(found.error)
                /\ UNCHANGED session
    /\ UNCHANGED <<app_config, limit_lookup, turn_vars, dispatch_vars, sql_vars>>

\* session.py:114-123  the expected dimension is configured and matches
SessionCheckDimension ==
    /\ init_pc = "embedding_validated"
    /\ LET expected_dim == app_config.KNN_EMBEDDING_DIMENSION
       IN  IF expected_dim = 0
           THEN InitRaise([type |-> "RuntimeError",
                           message |-> <<"'KNN_EMBEDDING_DIMENSION' is not defined">>])
           ELSE IF DimensionMismatch(session.knn_embedding_dimensions, expected_dim)
                THEN InitRaise([type |-> "ValueError",
                                message |-> <<"knn_embedding_dimensions does not match",
                                              session.knn_embedding_dimensions,
                                              expected_dim>>])
                ELSE /\ init_pc' = "session_ready"
                     /\ UNCHANGED init_raised
    /\ UNCHANGED <<app_config, session, limit_lookup, turn_vars, dispatch_vars, sql_vars>>

\* process_chat_message.py:25-32  the command exists once its session does
CommandInit ==
    /\ init_pc = "session_ready"
    /\ init_pc' = "command_ready"
    /\ UNCHANGED <<app_config, session, init_raised, limit_lookup, turn_vars,
                   dispatch_vars, sql_vars>>

\* session.py:165-174, 315  token limit of the session's chat model
TrimTokenLimit ==
    /\ init_pc = "command_ready"
    /\ limit_lookup' =
           FindModel(AVAILABLE_CHAT_MODELS, session.chat_model, "chat").model.token_limit
    /\ init_pc' = "trimming"
    /\ UNCHANGED <<app_config, session, init_raised, turn_vars, dispatch_vars, sql_vars>>

NextRegistry ==
    \/ SessionValidateChatModel
    \/ SessionValidateEmbeddingModel
    \/ SessionCheckDimension
    \/ CommandInit
    \/ TrimTokenLimit

SpecRegistry == InitRegistry /\ [][NextRegistry]_vars

(***************************************************************************)
(* trim_message_history on its own, for messages of every shape            *)
(***************************************************************************)
\* trim_message_history has been called with chat_messages
InitTrim ==
    /\ RouteIdle
    /\ Constructed
    /\ NormIdle
    /\ pc = "trim_called"
    /\ chat_messages \in TrimHistories
    /\ input_history = chat_messages
    /\ token_limit \in TokenLimits
    /\ trimmed = NoneList
    /\ outbound = NoneList
    /\ response = NoneObj
    /\ response_message = NoneObj
    /\ tool_messages = <<>>
    /\ idx = 0
    /\ events = <<>>
    /\ next_uuid = 2
    /\ returned = NoneList
    /\ raised = NoneObj

\* session.py:317-322  the tokenizer rejects a content while tokenizing
TrimRaises ==
    /\ pc = "trim_called"
    /\ \E i \in 1..Len(chat_messages) : EncodeRaises(chat_messages[i])
    /\ Raise(Exception("TypeError", "argument 'text': cannot be converted to 'PyString'"))
    /\ UNCHANGED <<chat_messages, input_history, token_limit, trimmed, outbound,
                   response, response_message, tool_messages, idx, events,
                   next_uuid, returned>>
    /\ UNCHANGED <<session_vars, dispatch_vars, sql_vars>>

\* session.py:305-350  the trimmed history is returned
TrimReturns ==
    /\ pc = "trim_called"
    /\ \A i \in 1..Len(chat_messages) : ~EncodeRaises(chat_messages[i])
    /\ trimmed' = trim_message_history(chat_messages, token_limit)
    /\ pc' = "trim_returned"
    /\ UNCHANGED <<chat_messages, input_history, token_limit, outbound, response,
                   response_message, tool_messages, idx, events, next_uuid,
                   returned, raised>>
    /\ UNCHANGED <<session_vars, dispatch_vars, sql_vars>>

NextTrim ==
    \/ TrimRaises
    \/ TrimReturns

SpecTrim == InitTrim /\ [][NextTrim]_vars

(***************************************************************************)
(* Normalization of one tool result, for every shape of return value       *)
(***************************************************************************)
\* run_tool has returned norm_return to execute_tool_call
InitDispatch ==
    /\ RouteIdle
    /\ TurnIdle
    /\ Constructed
    /\ norm_pc = "returned"
    /\ norm_return \in AllToolReturns
    /\ norm_result = NoneObj
    /\ norm_content = NoneObj

\* process_chat_message.py:151-161  execute_tool_call normalizes and returns
ExecuteToolCallNormalizes ==
    /\ norm_pc = "returned"
    /\ norm_result' = NormalizeResult(norm_return)
    /\ norm_pc' = "normalized"
    /\ UNCHANGED <<norm_return, norm_content, turn_vars, session_vars, sql_vars>>

\* process_chat_message.py:88-100  execute normalizes what it got back
ExecuteNormalizesAgain ==
    /\ norm_pc = "normalized"
    /\ norm_content' = ToolContent(norm_result)
    /\ norm_pc' = "content_ready"
    /\ UNCHANGED <<norm_return, norm_result, turn_vars, session_vars, sql_vars>>

NextDispatch ==
    \/ ExecuteToolCallNormalizes
    \/ ExecuteNormalizesAgain

SpecDispatch == InitDispatch /\ [][NextDispatch]_vars

(***************************************************************************)
(* One request to the text-to-SQL endpoint                                 *)
(***************************************************************************)
\* a POST has arrived; db tells for each SQL text whether the database
\* executes it
InitTextToSql ==
    /\ TurnIdle
    /\ Constructed
    /\ NormIdle
    /\ route_pc = "received"
    /\ question \in {NoneStr, "", "top customers?"}
    /\ db \in [SqlTexts -> BOOLEAN]
    /\ sql_query = NoneStr
    /\ draft_summary = NoneStr
    /\ result_markdown = <<>>
    /\ improved_sql = NoneStr
    /\ improved_summary = NoneStr
    /\ http_response = NoneObj

\* Response(data, status).build()
Respond(payload, status) ==
    /\ http_response' = [status |-> status, payload |-> payload]
    /\ route_pc' = "responded"

\* text_to_sql_routes.py:131-135  the question is required
RouteCheckQuestion ==
    /\ route_pc = "received"
    /\ IF ~TruthyStr(question)
       THEN Respond([error |-> "Missing 'question' in request"], 400)
       ELSE /\ route_pc' = "generating"
            /\ UNCHANGED http_response
    /\ UNCHANGED <<question, db, sql_query, draft_summary, result_markdown,
                   improved_sql, improved_summary>>
    /\ UNCHANGED <<turn_vars, session_vars, dispatch_vars>>

\* text_to_sql_routes.py:141-147  the language model fails
GenerateSqlFails ==
    /\ route_pc = "generating"
    /\ Respond([error |-> "LLM SQL generation failed"], 500)
    /\ UNCHANGED <<question, db, sql_query, draft_summary, result_markdown,
                   improved_sql, improved_summary>>
    /\ UNCHANGED <<turn_vars, session_vars, dispatch_vars>>

\* text_to_sql_routes.py:141-145  the language model answers with a query
GenerateSql ==
    /\ route_pc = "generating"
    /\ \E sql_response \in SqlOutputs :
         /\ sql_query' = parse_sql_response(sql_response).sql_query
         /\ draft_summary' = parse_sql_response(sql_response).summary
    /\ route_pc' = "executing"
    /\ UNCHANGED <<question, db, result_markdown, improved_sql, improved_summary,
                   http_response>>
    /\ UNCHANGED <<turn_vars, session_vars, dispatch_vars>>

\* text_to_sql_routes.py:149-154  the first query is executed
ExecuteSql ==
    /\ route_pc = "executing"
    /\ IF db[sql_query]
       THEN /\ result_markdown' = ResultMarkdown(sql_query)
            /\ route_pc' = "judging"
            /\ UNCHANGED http_response
       ELSE /\ Respond([error |-> "SQL execution failed"], 500)
            /\ UNCHANGED result_markdown
    /\ UNCHANGED <<question, db, sql_query, draft_summary, improved_sql,
                   improved_summary>>
    /\ UNCHANGED <<turn_vars, session_vars, dispatch_vars>>

\* text_to_sql_routes.py:158-162  the judge call fails: both are None
JudgeFails ==
    /\ route_pc = "judging"
    /\ improved_sql' = NoneStr
    /\ improved_summary' = NoneStr
    /\ route_pc' = "judged"
    /\ UNCHANGED <<question, db, sql_query, draft_summary, result_markdown,
                   http_response>>
    /\ UNCHANGED <<turn_vars, session_vars, dispatch_vars>>

\* text_to_sql_routes.py:158-160  the judge answers
Judge ==
    /\ route_pc = "judging"
    /\ \E judge_response \in JudgeOutputs :
         /\ improved_sql' = parse_judge_response(judge_response).improved_sql
         /\ improved_summary' = parse_judge_response(judge_response).improved_summary
    /\ route_pc' = "judged"
    /\ UNCHANGED <<question, db, sql_query, draft_summary, result_markdown,
                   http_response>>
    /\ UNCHANGED <<turn_vars, session_vars, dispatch_vars>>

\* text_to_sql_routes.py:164-183  the improved query is executed if there is
\* a different one, a failure is passed over, and the response is built
ReExecuteAndRespond ==
    /\ route_pc = "judged"
    /\ LET markdown == IF TruthyStr(improved_sql) /\ improved_sql # sql_query
                          /\ db[improved_sql]
                       THEN ResultMarkdown(improved_sql)
                       ELSE result_markdown
       IN  /\ result_markdown' = markdown
           /\ Respond([question |-> question,
                       sql_query |-> ReportedSql(improved_sql, sql_query),
                       result_markdown |-> markdown,
                       summary |-> Or(improved_summary, draft_summary)], 200)
    /\ UNCHANGED <<question, db, sql_query, draft_summary, improved_sql,
                   improved_summary>>
    /\ UNCHANGED <<turn_vars, session_vars, dispatch_vars>>

NextTextToSql ==
    \/ RouteCheckQuestion
    \/ GenerateSqlFails
    \/ GenerateSql
    \/ ExecuteSql
    \/ JudgeFails
    \/ Judge
    \/ ReExecuteAndRespond

SpecTextToSql == InitTextToSql /\ [][NextTextToSql]_vars

(***************************************************************************)
(* Properties                                                              *)
(***************************************************************************)
\* the turn returned and the response requested at least one tool call
ReturnedWithCalls ==
    /\ pc = "done"
    /\ response.finish_reason = "tool_calls"
    /\ Len(response.tool_calls) >= 1

\* number of content tokens of a message (empty and null content count 0)
TokenCount(msg) ==
    IF "content" \in DOMAIN msg /\ msg["content"] # None
    THEN Len(Encode(msg["content"])) ELSE 0

RECURSIVE TotalTokens(_)
TotalTokens(messages) ==
    IF messages = <<>> THEN 0
    ELSE TokenCount(Head(messages)) + TotalTokens(Tail(messages))

\* trim_message_history has run on the inbound history
Trimmed == trimmed # NoneList

\* C1: when the response requests N >= 1 tool calls and every dispatch
\* succeeds, the returned sequence ends with one assistant message carrying
\* all N requests followed by exactly N tool messages, the i-th of which has
\* the tool_call_id of the i-th request.
C1_AssistantThenToolsInOrder ==
    ReturnedWithCalls =>
        LET N    == Len(response.tool_calls)
            base == Len(returned) - N
        IN  /\ base = Len(input_history) + 1
            /\ returned[base]["role"] = "assistant"
            /\ Len(returned[base]["tool_calls"]) = N
            /\ \A i \in 1..N :
                 /\ returned[base]["tool_calls"][i] = ToolCallEntry(response.tool_calls[i])
                 /\ returned[base + i]["role"] = "tool"
                 /\ returned[base + i]["tool_call_id"] = response.tool_calls[i].id
                 /\ returned[base + i]["tool_call_id"] = returned[base]["tool_calls"][i].id
            /\ \A j \in 1..(base - 1) : returned[j] = input_history[j]

C1_Witness ==
    /\ ReturnedWithCalls
    /\ Len(response.tool_calls) = 2
    /\ Len(returned) = Len(input_history) + 3

C3_KeepsMostRecentMessage ==
    ( /\ Trimmed
      /\ input_history # <<>>
      /\ TokenCount(input_history[Len(input_history)]) > token_limit )
    => /\ Len(trimmed) = 1
       /\ trimmed[1]["content"] = input_history[Len(input_history)]["content"]

\* exceptions a failing tool dispatch raises: the argument text does not
\* decode, the name is not in the toolkit, the tool itself raises
DispatchFailureTypes == {"JSONDecodeError", "ValueError", "ToolError"}

\* execute ended, by returning or by raising
Ended == pc \in {"done", "raised"}

\* the dispatch loop was entered for a list of N >= 1 calls
Dispatched ==
    /\ response # NoneObj
    /\ response.finish_reason = "tool_calls"
    /\ response.tool_calls # NoneList
    /\ Len(response.tool_calls) >= 1

\* the log restricted to the toolkit calls
ToolEvents ==
    SelectSeq(events, LAMBDA e : e.op \in {"run_tool", "tool_returned", "tool_raised"})

\* C4 (as claimed): a failure while dispatching a tool call is captured into
\* the content of that call's tool message; no exception leaves execute
\* because of a tool dispatch failure.
C4_DispatchFailureCaptured ==
    pc = "raised" => raised.type \notin DispatchFailureTypes

\* C5 (as claimed): when the k-th of N calls fails, k < N, the later calls are
\* still dispatched, so a turn that ended after entering the dispatch loop
\* has produced N tool messages.
C5_ContinuesPastFailure ==
    (Ended /\ Dispatched /\ idx < Len(response.tool_calls))
        => Len(tool_messages) = Len(response.tool_calls)

\* C6: the requested tool calls are invoked one at a time in the order the
\* provider listed them: the j-th invocation is of the j-th listed call, it
\* starts only after the (j-1)-th has returned, and no call is invoked twice.
C6_SequentialInListedOrder ==
    LET T == ToolEvents
    IN  /\ \A j \in 1..Len(T) :
             IF j % 2 = 1
             THEN /\ T[j].op = "run_tool"
                  /\ T[j].call = response.tool_calls[(j + 1) \div 2].id
             ELSE /\ T[j].op \in {"tool_returned", "tool_raised"}
                  /\ T[j].call = T[j - 1].call
        /\ \A j \in 2..Len(T) : T[j].op = "run_tool" => T[j - 1].op = "tool_returned"
        /\ (pc = "in_tool") = (Len(T) % 2 = 1)
        /\ Len(T) > 0 => Len(T) <= 2 * Len(response.tool_calls)

C6_Witness ==
    /\ pc = "in_tool"
    /\ Len(ToolEvents) = 3
    /\ ToolEvents[3].call = response.tool_calls[2].id

\* C7: on a successful turn the returned sequence has the whole inbound
\* history as its prefix, element for element, also where trimming evicted
\* or re-emitted messages; the new assistant message and the tool messages
\* come after that prefix.
C7_OriginalHistoryIsPrefix ==
    pc = "done" =>
        /\ Len(returned) = Len(input_history) + 1 + Len(tool_messages)
        /\ SubSeq(returned, 1, Len(input_history)) = input_history
        /\ returned[Len(input_history) + 1] = response_message
        /\ SubSeq(returned, Len(input_history) + 2, Len(returned)) = tool_messages

C7_Witness ==
    /\ pc = "done"
    /\ Len(trimmed) < Len(input_history)
    /\ Len(tool_messages) >= 1
    /\ \E i \in 1..Len(input_history) : "timestamp" \in DOMAIN input_history[i]

\* C8 (as claimed): execute returns an extended copy; the list the caller
\* passed in has the same length and elements after the turn as before.
C8_CallerListNotMutated ==
    pc = "done" => chat_messages = input_history

\* C9: when the provider call fails, a BadRequestError leaves execute as the
\* same exception, any other failure leaves it as ValidationException "Error
\* in fetching chat response."; nothing is returned and nothing appended.
C9_ProviderFailureOutcome ==
    \A k \in 1..Len(events) :
        events[k].op = "completion_failed" =>
            /\ pc = "raised"
            /\ returned = NoneList
            /\ chat_messages = input_history
            /\ IF events[k].error.type = "BadRequestError"
               THEN raised = events[k].error
               ELSE raised = Exception("ValidationException",
                                       "Error in fetching chat response.")

C9_Witness ==
    /\ pc = "raised"
    /\ raised = Exception("BadRequestError", "malformed request")
    /\ events # <<>>
    /\ events[Len(events)].op = "completion_failed"

\* C10 (as claimed): a response with finish reason tool_calls and zero tool
\* calls (an empty list or no list) does not fail the turn: one assistant
\* message with empty content is appended and no tool message.
C10_ZeroToolCallsIsFinal ==
    ( /\ Ended
      /\ response # NoneObj
      /\ response.finish_reason = "tool_calls"
      /\ response.tool_calls \in {NoneList, <<>>} )
    => /\ pc = "done"
       /\ Len(returned) = Len(input_history) + 1
       /\ returned[Len(returned)]["role"] = "assistant"
       /\ ~Truthy(returned[Len(returned)]["content"])

\* C11: when the finish reason is not tool_calls, no tool is invoked and the
\* returned sequence is the inbound history followed by exactly one message:
\* role assistant, content the provider's reply text, no tool_calls field.
C11_FinalAnswerIsOneAssistantMessage ==
    (pc = "done" /\ response.finish_reason # "tool_calls") =>
        /\ ToolEvents = <<>>
        /\ tool_messages = <<>>
        /\ Len(returned) = Len(input_history) + 1
        /\ SubSeq(returned, 1, Len(input_history)) = input_history
        /\ LET m == returned[Len(returned)]
           IN  /\ m["role"] = "assistant"
               /\ m["content"] = response.content
               /\ "tool_calls" \notin DOMAIN m

C11_Witness ==
    /\ pc = "done"
    /\ response.finish_reason = "stop"
    /\ returned[Len(returned)]["content"] = <<"b">>
    /\ Len(input_history) = 2

\* C12: a turn started with an empty message sequence fails with a
\* validation failure before the lookup, the provider call or any tool
\* invocation, and returns nothing.
C12_EmptyHistoryRejectedFirst ==
    (input_history = <<>> /\ pc # "start") =>
        /\ pc = "raised"
        /\ raised = Exception("ValidationException", "Chat messages are required.")
        /\ events = <<>>
        /\ trimmed = NoneList
        /\ outbound = NoneList
        /\ returned = NoneList
        /\ chat_messages = <<>>

C12_Witness ==
    /\ input_history = <<>>
    /\ pc = "raised"
    /\ raised.type = "ValidationException"

\* roles the inbound interface admits
Roles == {"system", "user", "assistant", "tool"}

\* some inbound message has a role outside Roles
HasInvalidRole == \E i \in 1..Len(input_history) : input_history[i]["role"] \notin Roles

\* C13 (as claimed): an inbound message whose role is not one of system,
\* user, assistant, tool is rejected as a validation failure; no turn with
\* such a message reaches the provider call.
C13_InvalidRoleRejected ==
    HasInvalidRole =>
        /\ pc \in {"start", "preparing", "awaiting", "raised"}
        /\ \A k \in 1..Len(events) : events[k].op \notin {"completion", "completion_failed"}

\* names of the two catalogs
ChatModelNames == {AVAILABLE_CHAT_MODELS[i].name : i \in 1..Len(AVAILABLE_CHAT_MODELS)}

EmbeddingModelNames ==
    {AVAILABLE_EMBEDDING_MODELS[i].name : i \in 1..Len(AVAILABLE_EMBEDDING_MODELS)}

\* the constructor failed with the unknown-model error of that kind for that name
UnknownModelError(kind, name, names) ==
    /\ init_pc = "raised"
    /\ init_raised.type = "ValueError"
    /\ Len(init_raised.message) = 6
    /\ init_raised.message[2] = kind
    /\ init_raised.message[4] = name
    /\ {init_raised.message[6][i] : i \in 1..Len(init_raised.message[6])} = names

\* C14: model lookup is per kind: a name resolves only if it is in the
\* catalog of the requested kind; for any other name the lookup fails with an
\* error that lists every valid name of that kind; for a name in the catalog
\* it returns that model's own token limit or dimensionality.
C14_LookupPerKind ==
    /\ ChatModelNames \cap EmbeddingModelNames = {}
    /\ init_pc # "new" =>
          IF app_config.CHAT_MODEL \in ChatModelNames
          THEN session # NoneObj /\ session.chat_model = app_config.CHAT_MODEL
          ELSE UnknownModelError("chat", app_config.CHAT_MODEL, ChatModelNames)
    /\ (init_pc \notin {"new", "chat_validated"} /\ app_config.CHAT_MODEL \in ChatModelNames) =>
          IF app_config.EMBEDDING_MODEL \in EmbeddingModelNames
          THEN /\ session.embedding_model = app_config.EMBEDDING_MODEL
               /\ \E i \in 1..Len(AVAILABLE_EMBEDDING_MODELS) :
                    /\ AVAILABLE_EMBEDDING_MODELS[i].name = app_config.EMBEDDING_MODEL
                    /\ AVAILABLE_EMBEDDING_MODELS[i].dimensions = session.knn_embedding_dimensions
          ELSE UnknownModelError("embedding", app_config.EMBEDDING_MODEL, EmbeddingModelNames)
    /\ init_pc = "trimming" =>
          \E i \in 1..Len(AVAILABLE_CHAT_MODELS) :
             /\ AVAILABLE_CHAT_MODELS[i].name = app_config.CHAT_MODEL
             /\ AVAILABLE_CHAT_MODELS[i].token_limit = limit_lookup

C14_Witness ==
    /\ app_config.CHAT_MODEL = "gpt-4o"
    /\ app_config.EMBEDDING_MODEL = "gpt-4o"
    /\ UnknownModelError("embedding", "gpt-4o", EmbeddingModelNames)

\* C15: an LLMSession exists only if both model names are in their catalogs,
\* the expected KNN dimension is configured and equals the catalog
\* dimensionality of the embedding model; a mismatch fails construction, so
\* no session and no command exists with mismatched dimensions.
C15_SessionOnlyWithMatchingDimensions ==
    /\ init_pc \in {"session_ready", "command_ready", "trimming"} =>
          /\ app_config.CHAT_MODEL \in ChatModelNames
          /\ app_config.EMBEDDING_MODEL \in EmbeddingModelNames
          /\ app_config.KNN_EMBEDDING_DIMENSION # 0
          /\ session.knn_embedding_dimensions = app_config.KNN_EMBEDDING_DIMENSION
          /\ \E i \in 1..Len(AVAILABLE_EMBEDDING_MODELS) :
               /\ AVAILABLE_EMBEDDING_MODELS[i].name = session.embedding_model
               /\ AVAILABLE_EMBEDDING_MODELS[i].dimensions = app_config.KNN_EMBEDDING_DIMENSION
    /\ ( /\ init_pc = "raised"
         /\ app_config.CHAT_MODEL \in ChatModelNames
         /\ app_config.EMBEDDING_MODEL \in EmbeddingModelNames ) =>
          IF app_config.KNN_EMBEDDING_DIMENSION = 0
          THEN init_raised.type = "RuntimeError"
          ELSE /\ init_raised.type = "ValueError"
               /\ session.knn_embedding_dimensions # app_config.KNN_EMBEDDING_DIMENSION

C15_Witness ==
    /\ init_pc = "raised"
    /\ init_raised.type = "ValueError"
    /\ app_config.EMBEDDING_MODEL = "text-embedding-3-large"
    /\ app_config.KNN_EMBEDDING_DIMENSION = 1536

\* C16: normalization precedence in execute_tool_call: a value with an export
\* method is replaced by an export of it, also when it is a mapping;
\* otherwise a plain mapping is returned as it is; otherwise the value is
\* replaced by {"value": <its text>}, so a text is never passed on unwrapped.
C16_NormalizationPrecedence ==
    norm_pc \in {"normalized", "content_ready"} =>
        /\ IF norm_return.attrs # {}
           THEN \E m \in norm_return.attrs : norm_result = PyDict(norm_return.exports[m])
           ELSE IF norm_return.type = "dict"
                THEN norm_result = norm_return
                ELSE norm_result = PyDict(<<<<"value", Str(norm_return)>>>>)
        /\ norm_return.type = "str" =>
              /\ norm_result.type = "dict"
              /\ norm_result # norm_return

C16_Witness ==
    /\ norm_pc = "normalized"
    /\ norm_return.type = "dict"
    /\ norm_return.pairs = ResultPairs
    /\ norm_return.attrs = {"json"}
    /\ norm_result = PyDict(<<<<"via", "json">>>>)

\* C17: the second normalization, in execute, returns a plain mapping that
\* execute_tool_call produced unchanged.
C17_SecondNormalizationIsIdentity ==
    ( /\ norm_pc = "content_ready"
      /\ norm_result.type = "dict"
      /\ norm_result.attrs = {} )
    => norm_content = norm_result

C17_Witness ==
    /\ norm_pc = "content_ready"
    /\ norm_return = PyStr("| n |")
    /\ norm_result = PyDict(<<<<"value", "| n |">>>>)
    /\ norm_content = norm_result

\* JSON text of a mapping given as its pairs, key by key in order
JsonTextOfMapping(pairs) ==
    LET Lexemes[i \in 0..Len(pairs)] ==
            IF i = 0 THEN <<"{">>
            ELSE Lexemes[i - 1] \o (IF i > 1 THEN <<", ">> ELSE <<>>)
                 \o <<"\"", pairs[i][1], "\"", ": ", "\"", pairs[i][2], "\"">>
    IN  Lexemes[Len(pairs)] \o <<"}">>

\* the returns of the log, in order: the j-th one produced tool_messages[j]
ReturnEvents == SelectSeq(events, LAMBDA e : e.op = "tool_returned")

\* C18: for a tool call that succeeds and returns a mapping m, its tool
\* message has role tool, the tool_call_id of that call, and as content the
\* JSON text of exactly m.
C18_MappingResultEncodedExactly ==
    /\ Len(ReturnEvents) = Len(tool_messages)
    /\ \A j \in 1..Len(ReturnEvents) :
         (ReturnEvents[j].result.type = "dict" /\ ReturnEvents[j].result.attrs = {}) =>
             /\ tool_messages[j]["role"] = "tool"
             /\ tool_messages[j]["tool_call_id"] = ReturnEvents[j].call
             /\ ReturnEvents[j].call = response.tool_calls[j].id
             /\ tool_messages[j]["content"] = JsonTextOfMapping(ReturnEvents[j].result.pairs)

C18_Witness ==
    /\ pc = "done"
    /\ Len(tool_messages) = 2
    /\ ReturnEvents[2].result = PyDict(ResultPairs)
    /\ tool_messages[2]["content"] =
           <<"{", "\"", "q", "\"", ": ", "\"", "x", "\"", ", ",
             "\"", "result", "\"", ": ", "\"", "42", "\"", "}">>

\* C19 (as claimed): context enrichment never fails a turn: when the lookup
\* raises, the turn proceeds, so no turn ends with an exception right after
\* its lookup.
C19_LookupFailureDoesNotFailTurn ==
    (pc = "raised" /\ events # <<>>) => events[Len(events)].op # "lookup"

\* the call the dispatch loop is at has argument text that does not decode
AtMalformedCall ==
    /\ Dispatched
    /\ idx \in 1..Len(response.tool_calls)
    /\ response.tool_calls[idx].function.arguments = ArgsMalformed

\* C20: argument decoding comes first: when the argument text of a call does
\* not decode, the decode error leaves execute_tool_call and the turn, and
\* run_tool (catalog lookup and tool) is not entered for that call.
C20_DecodeBeforeLookupAndTool ==
    AtMalformedCall =>
        /\ pc \in {"dispatching", "raised"}
        /\ pc = "raised" => raised.type = "JSONDecodeError"
        /\ Len(ToolEvents) = 2 * (idx - 1)
        /\ \A j \in 1..Len(ToolEvents) : ToolEvents[j].call # response.tool_calls[idx].id
        /\ Len(tool_messages) = idx - 1
        /\ returned = NoneList

C20_Witness ==
    /\ AtMalformedCall
    /\ idx = 2
    /\ pc = "raised"
    /\ raised.type = "JSONDecodeError"
    /\ Len(ToolEvents) = 2

\* the content of a message is a text value
IsText(msg) == "content" \in DOMAIN msg /\ msg["content"] \notin {None, NonText}

\* number of messages trim_message_history evicted
Evicted == Len(input_history) - Len(trimmed)

\* C21 (as claimed): trim_message_history fails before returning whenever
\* some message's content is not a text value, a missing or null content
\* included; it never treats a non-text content as empty text.
C21_NonTextContentFailsFast ==
    (\E i \in 1..Len(input_history) : ~IsText(input_history[i])) => pc # "trim_returned"

\* C22: eviction is minimal: when at least one message was evicted, the
\* tokens of the surviving suffix plus those of the last evicted message
\* exceed the limit; when the input already fits, nothing is evicted.
C22_EvictionIsMinimal ==
    pc = "trim_returned" =>
        /\ Evicted >= 1 =>
              TotalTokens(trimmed) + TokenCount(input_history[Evicted]) > token_limit
        /\ TotalTokens(input_history) <= token_limit => Evicted = 0

C22_Witness ==
    /\ pc = "trim_returned"
    /\ Evicted = 2
    /\ Len(trimmed) = 1
    /\ TotalTokens(trimmed) < token_limit
    /\ TotalTokens(trimmed) + TokenCount(input_history[Evicted]) > token_limit

\* C23: a re-emitted message has exactly role and content, plus tool_calls
\* only when the original had a non-empty tool_calls list and tool_call_id
\* only when the original had one; a text content is re-emitted in full and
\* the input messages are not modified.
C23_ReemittedFields ==
    pc = "trim_returned" =>
        /\ chat_messages = input_history
        /\ \A i \in 1..Len(trimmed) :
             LET orig == input_history[Evicted + i]
                 hasCalls == "tool_calls" \in DOMAIN orig /\ orig["tool_calls"] # <<>>
                 hasId == "tool_call_id" \in DOMAIN orig /\ orig["tool_call_id"] # None
             IN  /\ DOMAIN trimmed[i] =
                        {"role", "content"}
                        \cup (IF hasCalls THEN {"tool_calls"} ELSE {})
                        \cup (IF hasId THEN {"tool_call_id"} ELSE {})
                 /\ trimmed[i]["role"] = orig["role"]
                 /\ IsText(orig) => trimmed[i]["content"] = orig["content"]
                 /\ hasCalls => trimmed[i]["tool_calls"] = orig["tool_calls"]
                 /\ hasId => trimmed[i]["tool_call_id"] = orig["tool_call_id"]

C23_Witness ==
    /\ pc = "trim_returned"
    /\ Len(trimmed) = 3
    /\ "timestamp" \in DOMAIN input_history[1]
    /\ Get(input_history[1], "tool_calls", NoneList) = <<>>
    /\ DOMAIN trimmed[1] = {"role", "content"}
    /\ DOMAIN trimmed[2] = {"role", "content", "tool_calls"}
    /\ trimmed[2]["content"] = <<"a">>
    /\ DOMAIN trimmed[3] = {"role", "content", "tool_call_id"}

\* ids of the tool calls an assistant message requests
RequestedIds(msg) ==
    IF "tool_calls" \in DOMAIN msg
    THEN {msg["tool_calls"][k].id : k \in 1..Len(msg["tool_calls"])}
    ELSE {}

\* position i of the list holds a tool message no assistant message of the
\* list requests
Orphan(messages, i) ==
    /\ messages[i]["role"] = "tool"
    /\ "tool_call_id" \in DOMAIN messages[i]
    /\ \A j \in 1..Len(messages) : messages[i]["tool_call_id"] \notin RequestedIds(messages[j])

\* C24: eviction is per message, oldest first, whatever the pairing: the
\* output is the suffix that the token counts alone determine, so an
\* assistant message with tool_calls never survives while a later message
\* (one of its tool messages) is evicted; a tool message can survive
\* without its assistant message (C24_Witness).
C24_EvictionIgnoresPairing ==
    pc = "trim_returned" =>
        /\ Evicted \in 0..Len(input_history)
        /\ \A i \in 1..Len(trimmed) : trimmed[i]["role"] = input_history[Evicted + i]["role"]
        /\ \A i \in 1..Len(input_history) :
             (RequestedIds(input_history[i]) # {} /\ i > Evicted) =>
                 \A j \in (i + 1)..Len(input_history) :
                     /\ j > Evicted
                     /\ Get(trimmed[j - Evicted], "tool_call_id", None)
                            = Get(input_history[j], "tool_call_id", None)
        /\ \A i \in 1..Len(input_history) :
             (i <= Evicted /\ i < Len(input_history) /\ TokenCount(input_history[i]) > 0
              /\ TotalTokens(SubSeq(input_history, i + 1, Len(input_history))) <= token_limit)
                 => Evicted = i

C24_Witness ==
    /\ pc = "trim_returned"
    /\ Len(input_history) = 2
    /\ RequestedIds(input_history[1]) = {CallId(0)}
    /\ ~Orphan(input_history, 2)
    /\ Len(trimmed) = 1
    /\ Orphan(trimmed, 1)

\* the messages execute created in this turn
Created == SubSeq(returned, Len(input_history) + 1, Len(returned))

\* C25 (as claimed): every message the engine creates carries id, role,
\* content and timestamp, the timestamp being one text string; tool_calls
\* appears only on an assistant message that requests tool calls and
\* tool_call_id only on tool messages.
C25_CreatedMessageFields ==
    pc = "done" =>
        \A i \in 1..Len(Created) :
            LET m == Created[i]
            IN  /\ {"id", "role", "content", "timestamp"} \subseteq DOMAIN m
                /\ m["timestamp"] = get_timestamp
                /\ "tool_calls" \in DOMAIN m =>
                       m["role"] = "assistant" /\ response.finish_reason = "tool_calls"
                /\ "tool_call_id" \in DOMAIN m => m["role"] = "tool"

\* positions of the user-role messages of the inbound history
UserPositions == {i \in 1..Len(input_history) : input_history[i]["role"] = "user"}

\* the lookups and the provider calls of the log
LookupEvents == SelectSeq(events, LAMBDA e : e.op = "lookup")

CompletionEvents == SelectSeq(events, LAMBDA e : e.op \in {"completion", "completion_failed"})

\* C26: the context sent to the provider is one system message followed by
\* the trimmed history in order, sent with the tool schema catalog; the
\* lookup is keyed off the content of the last user-role message of the
\* untrimmed history, also when trimming evicted it; without a user-role
\* message there is no lookup and the snippet list is empty.
C26_OutboundContext ==
    outbound # NoneList =>
        /\ Len(outbound) = Len(trimmed) + 1
        /\ outbound[1]["role"] = "system"
        /\ SubSeq(outbound, 2, Len(outbound)) = trimmed
        /\ \A i \in 1..Len(trimmed) :
             trimmed[i]["role"] = input_history[Len(input_history) - Len(trimmed) + i]["role"]
        /\ IF UserPositions = {}
           THEN /\ LookupEvents = <<>>
                /\ <<outbound[1]>> = chat_prompt(<<>>)
           ELSE /\ Len(LookupEvents) = 1
                /\ \E u \in UserPositions :
                     /\ \A v \in UserPositions : v <= u
                     /\ LookupEvents[1].arg = input_history[u]["content"]
                /\ <<outbound[1]>> = chat_prompt(SchemaSnippets)
        /\ \A k \in 1..Len(CompletionEvents) :
             /\ CompletionEvents[k].request.messages = outbound
             /\ CompletionEvents[k].request.tools = tool_schemas

C26_Witness ==
    /\ pc = "responded"
    /\ Len(input_history) = 3
    /\ Len(trimmed) = 1
    /\ UserPositions = {1, 2}
    /\ LookupEvents[1].arg = <<"b", "a">>
    /\ input_history[1]["content"] = <<"a">>

\* C27: a turn calls the provider at most once, exactly once when it gets
\* past the call, and never again after tool results are there; when the
\* call fails no tool is invoked and nothing is appended to the history.
C27_ProviderCalledOnce ==
    /\ Len(CompletionEvents) <= 1
    /\ pc \in {"responded", "dispatching", "in_tool", "assembling", "done"} =>
          /\ Len(CompletionEvents) = 1
          /\ events[Len(LookupEvents) + 1].op = "completion"
    /\ \A k \in 1..Len(events) :
          events[k].op = "completion_failed" =>
              /\ pc = "raised"
              /\ ToolEvents = <<>>
              /\ tool_messages = <<>>
              /\ chat_messages = input_history
              /\ returned = NoneList

C27_Witness ==
    /\ pc = "done"
    /\ Len(tool_messages) = 2
    /\ Len(CompletionEvents) = 1
    /\ events[Len(events)].op = "tool_returned"

\* C28: appending is all-or-nothing per turn: until every requested call
\* has been dispatched the history holds no new message, so when the k-th
\* dispatch raises, execute ends with that exception and an unchanged
\* history although calls 1..k-1 have run.
C28_AppendAllOrNothing ==
    /\ pc # "done" => chat_messages = input_history /\ returned = NoneList
    /\ (pc = "raised" /\ Dispatched) =>
          /\ raised.type \in DispatchFailureTypes
          /\ idx \in 1..Len(response.tool_calls)
          /\ Len(ReturnEvents) = idx - 1
          /\ Len(tool_messages) = idx - 1
    /\ pc = "done" =>
          Len(chat_messages) = Len(input_history) + 1 + Len(tool_messages)

C28_Witness ==
    /\ pc = "raised"
    /\ Dispatched
    /\ idx = 2
    /\ Len(ReturnEvents) = 1
    /\ raised.type = "ToolError"
    /\ chat_messages = input_history

\* C29: the token budget is applied to the history alone: the system prompt
\* is prepended after trimming and not counted, so the context sent has at
\* most token_limit plus the system prompt's tokens and can exceed
\* token_limit (C29_Witness).
C29_BudgetOnHistoryAlone ==
    outbound # NoneList =>
        /\ TotalTokens(trimmed) <= token_limit
        /\ TokenCount(outbound[1]) > 0
        /\ TotalTokens(outbound) = TokenCount(outbound[1]) + TotalTokens(trimmed)
        /\ TotalTokens(outbound) <= token_limit + TokenCount(outbound[1])
        /\ trimmed = trim_message_history(input_history, token_limit)

C29_Witness ==
    /\ pc = "awaiting"
    /\ TotalTokens(trimmed) = token_limit
    /\ TotalTokens(outbound) > token_limit
    /\ Len(trimmed) < Len(input_history)

\* C30 (as claimed): in every successful response of the text-to-SQL
\* endpoint result_markdown is the result of executing the reported
\* sql_query; an improved SQL is reported only if its execution succeeded,
\* otherwise the first query and its result are reported together.
C30_ResultBelongsToReportedSql ==
    (route_pc = "responded" /\ http_response.status = 200) =>
        /\ db[http_response.payload.sql_query]
        /\ http_response.payload.result_markdown
               = ResultMarkdown(http_response.payload.sql_query)
=============================================================================
